---- MODULE Spec2Model ----
(***************************************************************************)
(* Model of basic-agent.py: the two tools an agent may invoke,             *)
(* get_weather_for_location and search_tourist_spots, the shared           *)
(* geocode_city_open_meteo helper, and the three HTTP providers they talk  *)
(* to.  A tool invocation is a sequence of blocking HTTP requests; the     *)
(* provider's answer to each request is an input of the step that issues   *)
(* it.  JSON values are tagged tuples so that the shape of a payload       *)
(* (object, list, string, number, null) is something the code's            *)
(* operations can trip over, as they do in Python.                         *)
(***************************************************************************)
EXTENDS Integers, Sequences, FiniteSets, TLC

\* ------------------------------ bounds ---------------------------------
\* longest daily series the forecast provider answers with (it allows 16)
MaxSeries == 16
\* most place records the points-of-interest provider answers with
MaxPlaces == 21

\* ------------------------- program constants ---------------------------
\* "forecast_days": 15
forecast_days == 15
\* "limit": 20
limit == 20
\* radius = 15000
radius == 15000

\* ------------------------------ JSON -----------------------------------
JNull == <<"null">>
JNum(n) == <<"num", n>>
JStr(s) == <<"str", s>>
JList(s) == <<"list", s>>
JObj(f) == <<"obj", f>>
EmptyObj == JObj(<<>>)

IsObj(v) == v[1] = "obj"
IsList(v) == v[1] = "list"
HasKey(v, k) == IsObj(v) /\ k \in DOMAIN v[2]

\* Python truthiness of a JSON value (used by `not x`)
Truthy(v) ==
    CASE v[1] = "null" -> FALSE
      [] v[1] = "num" -> v[2] # 0
      [] v[1] = "str" -> v[2] # ""
      [] v[1] = "list" -> Len(v[2]) > 0
      [] v[1] = "obj" -> DOMAIN v[2] # {}

\* dict.get(k, default) on a value known to be an object
DictGet(v, k, default) == IF k \in DOMAIN v[2] THEN v[2][k] ELSE default

\* outcomes of a Python expression: a value or a raised exception
Ok(v) == <<"ok", v>>
Raise(type, msg) == <<"raise", [type |-> type, msg |-> msg]>>
IsOk(o) == o[1] = "ok"
IsRaise(o) == o[1] = "raise"

TypeName(v) ==
    CASE v[1] = "null" -> "NoneType"
      [] v[1] = "num" -> "int"
      [] v[1] = "str" -> "str"
      [] v[1] = "list" -> "list"
      [] v[1] = "obj" -> "dict"

NoAttrGet(v) == Raise("AttributeError", "'" \o TypeName(v) \o "' object has no attribute 'get'")

\* ------------------------------ HTTP -----------------------------------
\* A response is a transport failure or a 2xx response with a JSON body.
TransportFailures == {"ConnectionError", "Timeout", "HTTPError", "JSONDecodeError"}
Failed(kind) == <<"fail", kind>>
Body(b) == <<"body", b>>
IsTransportFailure(r) == r[1] = "fail"

\* a failure goes unnoticed and the body reads as null
HttpGetJsonUnchecked(r) == IF IsTransportFailure(r) THEN Ok(JNull) ELSE Ok(r[2])

\* requests.get(...); raise_for_status(); .json()
HttpGetJson(r) ==
    IF IsTransportFailure(r) THEN Raise(r[2], r[2] \o " raised by requests")
    ELSE Ok(r[2])

\* --------------------------- provider answers --------------------------
Cities == {"Rome", "Atlantis"}

\* one entry of the geocoding provider's "results" list
GeoFull == JObj([latitude |-> JNum(41), longitude |-> JNum(12), name |-> JStr("Roma"), country |-> JStr("Italy")])
GeoOther == JObj([latitude |-> JNum(34), longitude |-> JNum(-85), name |-> JStr("Rome"), country |-> JStr("United States")])
GeoNoName == JObj([latitude |-> JNum(41), longitude |-> JNum(12), country |-> JStr("Italy")])
GeoNoCountry == JObj([latitude |-> JNum(41), longitude |-> JNum(12), name |-> JStr("Roma")])
GeoNoLatitude == JObj([longitude |-> JNum(12), name |-> JStr("Roma"), country |-> JStr("Italy")])

\* geocoding bodies in which the provider reports no match
GeoNoMatchBodies ==
    { JObj([generationtime_ms |-> JNum(1)]),
      JObj([results |-> JList(<<>>)]),
      JObj([results |-> JNull]) }

GeoBodies ==
    { JObj([results |-> JList(<<e>>)]) : e \in {GeoFull, GeoOther, GeoNoName, GeoNoCountry, GeoNoLatitude, JStr("Roma")} }
    \cup GeoNoMatchBodies
    \cup { JList(<<>>), JObj([results |-> JObj([error |-> JStr("x")])]) }

GeoResponses == { Failed(k) : k \in TransportFailures } \cup { Body(b) : b \in GeoBodies }

\* --------------------- geocode_city_open_meteo -------------------------
\* x[key] on a JSON value
Subscript(v, key) ==
    IF IsObj(v)
    THEN IF key \in DOMAIN v[2] THEN Ok(v[2][key]) ELSE Raise("KeyError", "'" \o key \o "'")
    ELSE Raise("TypeError", "indices must be integers, not 'str'")

\* x[0] on a truthy JSON value (a list, an object or a number here)
First(v) ==
    CASE IsList(v) -> Ok(v[2][1])
      [] IsObj(v) -> Raise("KeyError", "0")
      [] OTHER -> Raise("TypeError", "'" \o TypeName(v) \o "' object is not subscriptable")

\* a default place instead of the failure
NotFoundDefault(c) ==
    Ok([lat |-> JNum(0), lon |-> JNum(0), resolved_name |-> JStr(c), country |-> JStr("")])

\* line 31: raise ValueError(f"City not found: {city}")
NotFound(c) == Raise("ValueError", "City not found: " \o c)

\* the body of geocode_city_open_meteo after the request has been answered
\* by r: a (lat, lon, resolved_name, country) tuple or a raised exception
geocode_city_open_meteo(c, r) ==
    LET got == HttpGetJson(r) IN
    IF IsRaise(got) THEN got
    ELSE LET data == got[2] IN
    IF ~IsObj(data) THEN NoAttrGet(data)
    ELSE LET results == DictGet(data, "results", JNull) IN
    IF ~Truthy(results) THEN NotFound(c)
    ELSE LET first == First(results) IN
    IF IsRaise(first) THEN first
    ELSE LET lat == Subscript(first[2], "latitude") IN
    IF IsRaise(lat) THEN lat
    ELSE LET lon == Subscript(first[2], "longitude") IN
    IF IsRaise(lon) THEN lon
    ELSE Ok([lat |-> lat[2], lon |-> lon[2],
             resolved_name |-> DictGet(first[2], "name", JStr(c)),
             country |-> DictGet(first[2], "country", JStr(""))])

\* the request line 26 issues
GeoRequest(c) == [api |-> "geocoding", name |-> c, count |-> 1]

\* ------------------------ forecast provider ----------------------------
Fields == <<"temperature_2m_max", "temperature_2m_min", "precipitation_probability_max", "precipitation_sum">>

\* the provider's value for field f (1..4) on day i; distinct per field and day
Value(f, i) == JNum(100 * f + i)
Date(i) == JStr("2026-11-" \o ToString(i))

Series(f, len) == JList([i \in 1..len |-> Value(f, i)])
Dates(n) == JList([i \in 1..n |-> Date(i)])

\* lengths a value array may have next to a time array of length n
FieldLens(n) == {l \in {0, n - 1, n, n + 1} : l >= 0}

\* a "daily" object with n dates and value arrays of lengths lens[1..4]
Daily(n, lens) ==
    JObj([time |-> Dates(n),
          temperature_2m_max |-> Series(1, lens[1]),
          temperature_2m_min |-> Series(2, lens[2]),
          precipitation_probability_max |-> Series(3, lens[3]),
          precipitation_sum |-> Series(4, lens[4])])

\* the four array lengths of one answer: one array deviating from n, all
\* four of one length, or four different lengths
LensFamily(n) ==
    { [f \in 1..4 |-> IF f = g THEN l ELSE n] : g \in 1..4, l \in FieldLens(n) }
    \cup { [f \in 1..4 |-> l] : l \in FieldLens(n) }
    \cup { <<0, n - 1, n, n + 1>> }

\* bodies with a daily series of n >= 1 dates, and a daily object that
\* carries the time array alone
ForecastSeriesBodies ==
    UNION { { JObj([latitude |-> JNum(41), daily |-> Daily(n, lens)]) : lens \in LensFamily(n) } : n \in 1..MaxSeries }
    \cup { JObj([daily |-> JObj([time |-> Dates(n)])]) : n \in 1..MaxSeries }

\* bodies without a daily series: "daily" absent or empty, "time" absent,
\* empty or null
ForecastNoSeriesBodies ==
    { JObj([latitude |-> JNum(41)]),
      JObj([daily |-> EmptyObj]),
      JObj([daily |-> JObj([temperature_2m_max |-> Series(1, 2)])]),
      JObj([daily |-> JObj([time |-> JNull])]) }
    \cup { JObj([daily |-> Daily(0, <<l, l, l, l>>)]) : l \in FieldLens(0) }

\* 2xx bodies of an unexpected shape
ForecastOddBodies ==
    { JList(<<>>), JNull,
      JObj([daily |-> JNull]),
      JObj([daily |-> JList(<<Date(1)>>)]),
      JObj([daily |-> JObj([time |-> JNum(5)])]),
      JObj([daily |-> JObj([time |-> Dates(2), temperature_2m_max |-> JNull])]),
      JObj([daily |-> JObj([time |-> Dates(2), temperature_2m_max |-> Series(1, 2), precipitation_sum |-> JNum(0)])]) }

ForecastBodies == ForecastSeriesBodies \cup ForecastNoSeriesBodies \cup ForecastOddBodies

ForecastResponses == { Failed(k) : k \in TransportFailures } \cup { Body(b) : b \in ForecastBodies }

\* ---------------------- get_weather_for_location -----------------------
\* the request line 86 issues
ForecastRequest(pl) ==
    [api |-> "forecast", latitude |-> pl.lat, longitude |-> pl.lon, forecast_days |-> forecast_days]

\* a missing value defaults to 0
ValueOrZero(arr, i) ==
    IF ~IsList(arr) THEN Raise("TypeError", "object of type '" \o TypeName(arr) \o "' has no len()")
    ELSE IF i <= Len(arr[2]) THEN Ok(arr[2][i]) ELSE Ok(JNum(0))

\* arr[i] if i < len(arr) else None, for the 1-based day i
ValueOrNone(arr, i) ==
    IF ~IsList(arr) THEN Raise("TypeError", "object of type '" \o TypeName(arr) \o "' has no len()")
    ELSE IF i <= Len(arr[2]) THEN Ok(arr[2][i]) ELSE Ok(JNull)

\* one iteration of the loop at line 109
DayRecord(date, i, t_max, t_min, pop_max, precip_sum) ==
    LET a == ValueOrNone(t_max, i)
        b == ValueOrNone(t_min, i)
        c == ValueOrNone(pop_max, i)
        d == ValueOrNone(precip_sum, i)
    IN  IF IsRaise(a) THEN a
        ELSE IF IsRaise(b) THEN b
        ELSE IF IsRaise(c) THEN c
        ELSE IF IsRaise(d) THEN d
        ELSE Ok(JObj([date |-> date, temp_max_c |-> a[2], temp_min_c |-> b[2],
                      precipitation_probability_max |-> c[2], precipitation_sum_mm |-> d[2]]))

WeatherNotes == JStr("Forecast from Open-Meteo: 15 days of daily max/min temperature, max precipitation probability, and precipitation sum.")

GeocodeError(c, e) == JObj([error |-> JStr("Failed to geocode city '" \o c \o "': " \o e.msg)])
ForecastError(c, e) == JObj([error |-> JStr("Failed to fetch weather forecast for '" \o c \o "': " \o e.msg)])
\* the no-data result with an empty days list added
NoDailyDataWithDays(pl) ==
    JObj([error |-> JStr("No daily forecast data returned."), city |-> pl.resolved_name,
          country |-> pl.country, days |-> JList(<<>>)])

\* lines 102-106
NoDailyData(pl) == JObj([error |-> JStr("No daily forecast data returned."), city |-> pl.resolved_name, country |-> pl.country])

\* lines 121-131: the result of a forecast with its days
WeatherResult(pl, days) ==
    JObj([city |-> pl.resolved_name, country |-> pl.country,
          latitude |-> pl.lat, longitude |-> pl.lon,
          days |-> JList(days), notes |-> WeatherNotes])

\* lines 85-133 of get_weather_for_location once the forecast request has
\* been answered by r: the returned JSON document or the exception that
\* leaves the tool
WeatherOutcome(c, pl, r) ==
    LET got == HttpGetJson(r) IN
    IF IsRaise(got) THEN Ok(ForecastError(c, got[2]))
    ELSE LET f_data == got[2] IN
    IF ~IsObj(f_data) THEN NoAttrGet(f_data)
    ELSE LET daily == DictGet(f_data, "daily", EmptyObj) IN
    IF ~IsObj(daily) THEN NoAttrGet(daily)
    ELSE LET dates == DictGet(daily, "time", JList(<<>>))
             t_max == DictGet(daily, "temperature_2m_max", JList(<<>>))
             t_min == DictGet(daily, "temperature_2m_min", JList(<<>>))
             pop_max == DictGet(daily, "precipitation_probability_max", JList(<<>>))
             precip_sum == DictGet(daily, "precipitation_sum", JList(<<>>))
    IN
    IF ~Truthy(dates) THEN Ok(NoDailyData(pl))
    ELSE IF ~IsList(dates) THEN Raise("TypeError", "'" \o TypeName(dates) \o "' object is not iterable")
    ELSE LET recs == [i \in 1..Len(dates[2]) |-> DayRecord(dates[2][i], i, t_max, t_min, pop_max, precip_sum)] IN
    IF \E i \in 1..Len(recs) : IsRaise(recs[i])
    THEN recs[CHOOSE i \in 1..Len(recs) : IsRaise(recs[i]) /\ \A j \in 1..(i - 1) : IsOk(recs[j])]
    ELSE Ok(WeatherResult(pl, [i \in 1..Len(recs) |-> recs[i][2]]))

\* -------------------- points-of-interest provider ----------------------
\* OPEN_TRIPMAP_API_KEY as os.getenv reads it: unset, empty or set
ApiKeys == {JNull, JStr(""), JStr("5ae2e3f2")}

Num(i) == ToString(i)

FullPlace(i) ==
    JObj([xid |-> JStr("N" \o Num(i)), name |-> JStr("Place " \o Num(i)), dist |-> JNum(100 * i),
          rate |-> JNum(2), osm |-> JStr("node/" \o Num(i)), kinds |-> JStr("historic,architecture")])
SparsePlace(i) == JObj([xid |-> JStr("N" \o Num(i)), name |-> JStr("")])

PlaceRecord(pat, i) ==
    CASE pat = "full" -> FullPlace(i)
      [] pat = "sparse" -> SparsePlace(i)
      [] pat = "mixed" -> IF i % 2 = 1 THEN FullPlace(i) ELSE SparsePlace(i)

\* a list of n place records
PlacesListBodies ==
    { JList([i \in 1..n |-> PlaceRecord(pat, i)]) : n \in 0..MaxPlaces, pat \in {"full", "sparse", "mixed"} }

\* 2xx bodies of an unexpected shape
PlacesOddBodies ==
    { EmptyObj, JNull, JNum(0),
      JObj([error |-> JStr("Invalid API key")]),
      JList(<<JStr("Place 1")>>),
      JList(<<FullPlace(1), JNull>>) }

PlacesBodies == PlacesListBodies \cup PlacesOddBodies

PlacesResponses == { Failed(k) : k \in TransportFailures } \cup { Body(b) : b \in PlacesBodies }

\* ------------------------- search_tourist_spots ------------------------
\* the request line 184 issues
PlacesRequest(pl, key) ==
    [api |-> "places", radius |-> radius, lon |-> pl.lon, lat |-> pl.lat, limit |-> limit, apikey |-> key]

MissingKeyError == JObj([error |-> JStr("OPEN_TRIPMAP_API_KEY is not set in environment.")])
PlacesError(c, e) == JObj([error |-> JStr("Failed to fetch tourist spots for '" \o c \o "': " \o e.msg)])

TouristNotes == JStr("Attractions from OpenTripMap within ~15km radius. Use name + kinds for itinerary planning.")

\* one iteration of the loop at line 193
Attraction(item) ==
    IF ~IsObj(item) THEN NoAttrGet(item)
    ELSE Ok(JObj([name |-> DictGet(item, "name", JNull), kinds |-> DictGet(item, "kinds", JNull),
                  dist_m |-> DictGet(item, "dist", JNull), osm |-> DictGet(item, "osm", JNull),
                  xid |-> DictGet(item, "xid", JNull)]))

\* what `for item in p_data` walks over: the elements of a list, the keys
\* of an object (every key is a string, so the walk ends at the first one
\* and one key stands for them all); other values are not iterable
Items(v) ==
    CASE IsList(v) -> Ok(v[2])
      [] IsObj(v) -> Ok(IF DOMAIN v[2] = {} THEN <<>> ELSE <<JStr(CHOOSE k \in DOMAIN v[2] : TRUE)>>)
      [] OTHER -> Raise("TypeError", "'" \o TypeName(v) \o "' object is not iterable")

\* an empty search reported as an error
TouristResultEmptyIsError(pl, attractions) ==
    IF Len(attractions) = 0
    THEN JObj([error |-> JStr("No tourist spots found."), city |-> pl.resolved_name, country |-> pl.country])
    ELSE JObj([city |-> pl.resolved_name, country |-> pl.country,
               latitude |-> pl.lat, longitude |-> pl.lon,
               attractions |-> JList(attractions), notes |-> TouristNotes])

\* lines 205-215: the result of a search with its attractions
TouristResult(pl, attractions) ==
    JObj([city |-> pl.resolved_name, country |-> pl.country,
          latitude |-> pl.lat, longitude |-> pl.lon,
          attractions |-> JList(attractions), notes |-> TouristNotes])

\* lines 183-217 of search_tourist_spots once the places request has been
\* answered by r
TouristOutcome(c, pl, r) ==
    LET got == HttpGetJson(r) IN
    IF IsRaise(got) THEN Ok(PlacesError(c, got[2]))
    ELSE LET p_data == got[2]
             items == Items(p_data) IN
    IF IsRaise(items) THEN items
    ELSE LET recs == [i \in 1..Len(items[2]) |-> Attraction(items[2][i])] IN
    IF \E i \in 1..Len(recs) : IsRaise(recs[i])
    THEN recs[CHOOSE i \in 1..Len(recs) : IsRaise(recs[i]) /\ \A j \in 1..(i - 1) : IsOk(recs[j])]
    ELSE Ok(TouristResult(pl, [i \in 1..Len(recs) |-> recs[i][2]]))

\* ---------------------------- the process ------------------------------
VARIABLES
    pc,        \* "idle", "geocode", "forecast", "places", "returned", "raised"
    tool,      \* the tool being run, "none" when idle
    city,      \* the tool's argument
    api_key,   \* search_tourist_spots' api_key
    geo,       \* what geocode_city_open_meteo gave this invocation
    sent,      \* the requests this invocation has issued, in order
    received,  \* the providers' answers to them, in order
    outcome,   \* the JSON document returned, or the exception raised
    prevGeo    \* the geocoding call of the latest finished invocation that made one

vars == <<pc, tool, city, api_key, geo, sent, received, outcome, prevGeo>>

None == <<"none">>
Weather == "get_weather_for_location"
Tourist == "search_tourist_spots"

Init ==
    /\ pc = "idle"
    /\ tool = "none"
    /\ city = ""
    /\ api_key = JNull
    /\ geo = None
    /\ sent = <<>>
    /\ received = <<>>
    /\ outcome = None
    /\ prevGeo = None

\* the agent invokes get_weather_for_location(c)
CallWeather(c) ==
    /\ pc = "idle"
    /\ pc' = "geocode"
    /\ tool' = Weather
    /\ city' = c
    /\ UNCHANGED <<api_key, geo, sent, received, outcome, prevGeo>>

\* the key is tested with `is None`: an empty key passes
CallTouristIsNone(c, key) ==
    /\ pc = "idle"
    /\ tool' = Tourist
    /\ city' = c
    /\ api_key' = key
    /\ IF key = JNull
       THEN pc' = "returned" /\ outcome' = Ok(MissingKeyError)
       ELSE pc' = "geocode" /\ UNCHANGED outcome
    /\ UNCHANGED <<geo, sent, received, prevGeo>>

\* the agent invokes search_tourist_spots(c) with the environment holding
\* key: lines 153-157
CallTourist(c, key) ==
    /\ pc = "idle"
    /\ tool' = Tourist
    /\ city' = c
    /\ api_key' = key
    /\ IF ~Truthy(key)
       THEN pc' = "returned" /\ outcome' = Ok(MissingKeyError)
       ELSE pc' = "geocode" /\ UNCHANGED outcome
    /\ UNCHANGED <<geo, sent, received, prevGeo>>

\* geocoding with a cache: a city geocoded by the previous call is not
\* requested again
GeocodeCached(r) ==
    /\ pc = "geocode"
    /\ LET hit == prevGeo # None /\ prevGeo[2].city = city
           out == IF hit THEN prevGeo[2].out ELSE geocode_city_open_meteo(city, r) IN
       /\ sent' = IF hit THEN sent ELSE Append(sent, GeoRequest(city))
       /\ received' = Append(received, r)
       /\ geo' = out
       /\ IF IsRaise(out)
          THEN pc' = "returned" /\ outcome' = Ok(GeocodeError(city, out[2]))
          ELSE pc' = (IF tool = Weather THEN "forecast" ELSE "places") /\ UNCHANGED outcome
    /\ UNCHANGED <<tool, city, api_key, prevGeo>>

\* lines 59-64 and 160-165: the tool calls geocode_city_open_meteo, which
\* issues its request and is answered by r
Geocode(r) ==
    /\ pc = "geocode"
    /\ sent' = Append(sent, GeoRequest(city))
    /\ received' = Append(received, r)
    /\ LET out == geocode_city_open_meteo(city, r) IN
       /\ geo' = out
       /\ IF IsRaise(out)
          THEN pc' = "returned" /\ outcome' = Ok(GeocodeError(city, out[2]))
          ELSE pc' = (IF tool = Weather THEN "forecast" ELSE "places") /\ UNCHANGED outcome
    /\ UNCHANGED <<tool, city, api_key, prevGeo>>

\* lines 71-133: the forecast request, answered by r, and the reshaping
Forecast(r) ==
    /\ pc = "forecast"
    /\ sent' = Append(sent, ForecastRequest(geo[2]))
    /\ received' = Append(received, r)
    /\ outcome' = WeatherOutcome(city, geo[2], r)
    /\ pc' = (IF IsOk(outcome') THEN "returned" ELSE "raised")
    /\ UNCHANGED <<tool, city, api_key, geo, prevGeo>>

\* lines 170-217: the places request, answered by r, and the reshaping
Places(r) ==
    /\ pc = "places"
    /\ sent' = Append(sent, PlacesRequest(geo[2], api_key))
    /\ received' = Append(received, r)
    /\ outcome' = TouristOutcome(city, geo[2], r)
    /\ pc' = (IF IsOk(outcome') THEN "returned" ELSE "raised")
    /\ UNCHANGED <<tool, city, api_key, geo, prevGeo>>

\* the invocation is over; its locals are gone
Finish ==
    /\ pc \in {"returned", "raised"}
    /\ pc' = "idle"
    /\ tool' = "none"
    /\ city' = ""
    /\ api_key' = JNull
    /\ geo' = None
    /\ sent' = <<>>
    /\ received' = <<>>
    /\ outcome' = None
    /\ prevGeo' = IF geo = None THEN prevGeo
                  ELSE <<"call", [city |-> city, response |-> received[1], out |-> geo]>>

Next ==
    \/ \E c \in Cities : CallWeather(c)
    \/ \E c \in Cities, key \in ApiKeys : CallTourist(c, key)
    \/ \E r \in GeoResponses : Geocode(r)
    \/ \E r \in ForecastResponses : Forecast(r)
    \/ \E r \in PlacesResponses : Places(r)
    \/ Finish

Spec == Init /\ [][Next]_vars

TypeOK ==
    /\ pc \in {"idle", "geocode", "forecast", "places", "returned", "raised"}
    /\ tool \in {"none", Weather, Tourist}
    /\ Len(sent) = Len(received)
    /\ Len(sent) <= 2

\* ----------------------------- properties ------------------------------
Answered(i) == Len(received) >= i
Document == outcome[2]
ReturnedDocument == pc = "returned" /\ IsOk(outcome) /\ IsObj(Document)
ReturnedError == ReturnedDocument /\ HasKey(Document, "error") /\ Document[2].error[1] = "str"
RequestsTo(api) == Cardinality({i \in 1..Len(sent) : sent[i].api = api})

\* the geocoding answer is a 2xx object whose "results" is absent or empty
NoMatches(r) ==
    /\ ~IsTransportFailure(r)
    /\ IsObj(r[2])
    /\ (~HasKey(r[2], "results") \/ r[2][2].results = JList(<<>>))

\* C1: once the geocoding provider has answered this invocation with no
\* matches, geocode_city_open_meteo has raised the not-found ValueError,
\* the tool has returned a document with an error string, and the
\* geocoding request is the only request the invocation has issued.
C1_NotFoundStopsTool ==
    (Answered(1) /\ NoMatches(received[1])) =>
        /\ geo = Raise("ValueError", "City not found: " \o city)
        /\ ReturnedError
        /\ sent = <<GeoRequest(city)>>
        /\ RequestsTo("forecast") = 0 /\ RequestsTo("places") = 0

C1_Witness ==
    /\ tool = Tourist
    /\ Answered(1) /\ NoMatches(received[1])
    /\ pc = "returned"

\* C2: when a request of this invocation (geocoding, forecast or places)
\* has failed at the transport level, the tool has returned a document
\* with an error string and has raised nothing.
C2_TransportFailureReturned ==
    (\E i \in 1..Len(received) : IsTransportFailure(received[i])) =>
        /\ pc # "raised"
        /\ ReturnedError

C2_Witness ==
    /\ tool = Weather
    /\ Answered(2) /\ IsTransportFailure(received[2])
    /\ ReturnedError

\* C3: no invocation ends with an exception leaving the tool, whatever the
\* providers answer.
C3_NoFaultEscapes == pc # "raised"

\* the forecast answer is a 2xx object whose daily.time is a non-empty list
\* and whose value arrays, where present, are lists
HasSeries(r) ==
    /\ ~IsTransportFailure(r)
    /\ IsObj(r[2]) /\ HasKey(r[2], "daily") /\ IsObj(r[2][2].daily)
    /\ LET daily == r[2][2].daily IN
       /\ HasKey(daily, "time") /\ IsList(daily[2].time) /\ Len(daily[2].time[2]) > 0
       /\ \A f \in 1..4 : HasKey(daily, Fields[f]) => IsList(daily[2][Fields[f]])

\* C4: after a successful geocoding and a successful forecast request with
\* a daily series, the returned document has exactly forecast_days days.
C4_ExactlyHorizonDays ==
    (tool = Weather /\ Answered(2) /\ HasSeries(received[2])) =>
        /\ ReturnedDocument
        /\ HasKey(Document, "days")
        /\ Len(Document[2].days[2]) = forecast_days

\* C5 as stated: with the credential absent or empty the returned document
\* carries the error and an empty attractions list.
C5_EmptyAttractionList ==
    (tool = Tourist /\ ~Truthy(api_key)) =>
        /\ ReturnedError
        /\ HasKey(Document, "attractions")
        /\ Document[2].attractions = JList(<<>>)

\* C5 amended: with the credential absent or empty search_tourist_spots
\* returns a document whose only field is the missing-credential error
\* string -- it has no attractions field at all -- and issues no request.
C5_ErrorOnly ==
    (tool = Tourist /\ ~Truthy(api_key)) =>
        /\ ReturnedError
        /\ DOMAIN Document[2] = {"error"}
        /\ Document[2].error = JStr("OPEN_TRIPMAP_API_KEY is not set in environment.")
        /\ sent = <<>>

C5_Witness ==
    /\ tool = Tourist
    /\ api_key = JStr("")
    /\ pc = "returned"

\* C6: an invocation that has geocoded has issued exactly one geocoding
\* request, and when the previous geocoding call had the same city and got
\* the same answer, both calls gave the same place (or the same failure).
C6_GeocodeIndependent ==
    (geo # None) =>
        /\ RequestsTo("geocoding") = 1
        /\ sent[1] = GeoRequest(city)
        /\ (prevGeo # None /\ prevGeo[2].city = city /\ prevGeo[2].response = received[1])
               => prevGeo[2].out = geo

C6_Witness ==
    /\ geo # None /\ IsOk(geo)
    /\ prevGeo # None /\ prevGeo[2].city = city /\ prevGeo[2].response = received[1]
    /\ prevGeo[2].out = geo

\* C7: a returned attractions list has at most limit entries.
C7_AtMostLimit ==
    (ReturnedDocument /\ HasKey(Document, "attractions")) =>
        Len(Document[2].attractions[2]) <= limit

\* C8: with the credential present and geocoding successful, an empty list
\* from the places provider gives a document with an empty attractions list
\* and no error field.
C8_EmptySearchIsNotAnError ==
    (tool = Tourist /\ Answered(2) /\ received[2] = Body(JList(<<>>))) =>
        /\ ReturnedDocument
        /\ ~HasKey(Document, "error")
        /\ HasKey(Document, "attractions")
        /\ Document[2].attractions = JList(<<>>)

C8_Witness ==
    /\ tool = Tourist
    /\ Truthy(api_key)
    /\ IsOk(geo)
    /\ Answered(2) /\ received[2] = Body(JList(<<>>))
    /\ pc = "returned"

\* the i-th element of the provider's array for key, null when the array
\* is absent or has no i-th element
Provided(daily, key, i) ==
    IF HasKey(daily, key) /\ i <= Len(daily[2][key][2]) THEN daily[2][key][2][i] ELSE JNull

\* C9: the days of a forecast document are the provider's dates in order,
\* each with the provider's values for that day, null where the provider's
\* array has none.
C9_DaysFollowProvider ==
    (tool = Weather /\ ReturnedDocument /\ HasKey(Document, "days")) =>
        LET daily == received[2][2][2].daily
            dates == daily[2].time[2]
            days == Document[2].days[2]
        IN  /\ Len(days) = Len(dates)
            /\ \A i \in 1..Len(days) :
                  /\ days[i][2].date = dates[i]
                  /\ days[i][2].temp_max_c = Provided(daily, "temperature_2m_max", i)
                  /\ days[i][2].temp_min_c = Provided(daily, "temperature_2m_min", i)
                  /\ days[i][2].precipitation_probability_max = Provided(daily, "precipitation_probability_max", i)
                  /\ days[i][2].precipitation_sum_mm = Provided(daily, "precipitation_sum", i)

\* a short array met next to a longer time array, and a null came out
C9_Witness ==
    /\ tool = Weather /\ ReturnedDocument /\ HasKey(Document, "days")
    /\ Len(Document[2].days[2]) >= 3
    /\ Document[2].days[2][3][2].temp_min_c = JNull
    /\ Document[2].days[2][2][2].temp_min_c # JNull
    /\ Document[2].days[2][3][2].temp_max_c # JNull

\* the forecast answer is a 2xx object whose "daily" is absent or empty, or
\* whose daily "time" is absent or empty
NoDailySeries(r) ==
    /\ ~IsTransportFailure(r)
    /\ IsObj(r[2])
    /\ \/ ~HasKey(r[2], "daily")
       \/ /\ IsObj(r[2][2].daily)
          /\ (~HasKey(r[2][2].daily, "time") \/ r[2][2].daily[2].time = JList(<<>>))

\* C10: a forecast answer without a daily series gives the no-data
\* document: an error string with the resolved city and country and no
\* days; and no returned document has both an error and days.
C10_NoDataResult ==
    /\ (tool = Weather /\ Answered(2) /\ NoDailySeries(received[2])) =>
          /\ ReturnedError
          /\ Document[2].error = JStr("No daily forecast data returned.")
          /\ HasKey(Document, "city") /\ Document[2].city = geo[2].resolved_name
          /\ HasKey(Document, "country") /\ Document[2].country = geo[2].country
          /\ ~HasKey(Document, "days")
    /\ ReturnedDocument => ~(HasKey(Document, "error") /\ HasKey(Document, "days"))

C10_Witness ==
    /\ tool = Weather /\ Answered(2) /\ NoDailySeries(received[2])
    /\ HasKey(received[2][2], "daily")
    /\ pc = "returned"

====
